---- MODULE Spec2Model ----
(***************************************************************************)
(* Model of the place enrichment cache of myndy-location                   *)
(* (core/analysis/enrichment.py): PlaceEnricher with its JSON cache file,  *)
(* proximity reuse, rate limiter and result parser.                        *)
(*                                                                         *)
(* Representation                                                          *)
(*   - a Python str is the sequence of its characters (<<"1","2">>);       *)
(*     None in a str-typed slot is the one-element sequence None, which    *)
(*     is no character sequence;                                           *)
(*   - an Optional object (a PlaceEnrichment result, raw_data) is <<>>     *)
(*     for None and <<x>> for the object x;                                *)
(*   - a coordinate is an integer number of 1e-5 degrees;                  *)
(*   - a cache key, the string "lat,lon", is the sequence of its           *)
(*     comma-separated parts, each part a token: a formatted number        *)
(*     (sign and magnitude in 1e-4 degrees, so that "-0.0000" and          *)
(*     "0.0000" are different texts) or text that float() rejects;         *)
(*   - a dict is the sequence of its items in insertion order;             *)
(*   - wall-clock time is counted in ticks, TicksPerSecond to the second.  *)
(***************************************************************************)
EXTENDS Integers, Sequences, FiniteSets, TLC

VARIABLES
    cache,              \* self.cache
    file,               \* the contents of self.cache_file
    last_request_time,  \* self.last_request_time
    now,                \* time.time()
    last_issue,         \* when this enricher last called the geocoder, -1 if never
    densified,          \* the items put by proximity hits and not replaced since
    step,               \* the number of operations so far
    ret,                \* the last operation, as its caller saw it
    threads,            \* where each concurrent caller is in enrich_place
    run,                \* the run of scripts/enrich_places.py main()
    mig                 \* the run of migrate_location_data()

vars == <<cache, file, last_request_time, now, last_issue, densified, step, ret,
          threads, run, mig>>

(* ---------------------------- bounds ----------------------------------- *)

TicksPerSecond == 2
MaxTime == 5
MaxCallDur == 1
MaxSteps == 3

(* ------------------------ program constants ---------------------------- *)

\* min_request_interval = 1.0 seconds
min_request_interval == 1 * TicksPerSecond

\* cache_radius = 50.0 metres
cache_radius == 50

(* --------------------------- Python values ----------------------------- *)

None == <<"None">>

Digits == {"0", "1", "2", "3", "4", "5", "6", "7", "8", "9"}

\* bool(x) of an Optional[str]
Truthy(x) == x /= None /\ x /= <<>>

\* a or b
Or(a, b) == IF Truthy(a) THEN a ELSE b

\* str.isdigit()
isdigit(s) == Len(s) > 0 /\ \A i \in 1..Len(s) : s[i] \in Digits

\* d.get(k) and d.get(k, default) of a dict with string keys
Get(d, k, default) == IF k \in DOMAIN d THEN d[k] ELSE default

RECURSIVE SplitFirst(_)
\* s.split(',')[0]
SplitFirst(s) ==
    IF s = <<>> \/ Head(s) = "," THEN <<>>
    ELSE <<Head(s)>> \o SplitFirst(Tail(s))

Abs(x) == IF x < 0 THEN -x ELSE x

(* ------------------------------ keys ----------------------------------- *)

\* f"{x:.4f}" of a coordinate x given in 1e-5 degrees: round to 4 decimals
\* (ties to even on the decimal value) and keep the sign of x, so that a
\* small negative x prints as "-0.0000".
Format4(x) ==
    LET a == Abs(x)
        q == a \div 10
        r == a % 10
        m == IF r > 5 \/ (r = 5 /\ q % 2 = 1) THEN q + 1 ELSE q
    IN  [txt |-> "num", neg |-> x < 0, mag |-> m]

_get_cache_key(latitude, longitude) == <<Format4(latitude), Format4(longitude)>>

\* float(token), in 1e-5 degrees; defined for numeric tokens only
Float(tok) == IF tok.neg THEN -(tok.mag * 10) ELSE tok.mag * 10

\* cache_lat, cache_lng = map(float, cache_key.split(',')) succeeds
Decodes(cache_key) ==
    Len(cache_key) = 2 /\ \A i \in 1..2 : cache_key[i].txt = "num"

\* geodesic(p, q).meters <= radius, for points a few hundred metres apart
\* near the equator: one unit of 1e-5 degrees is 111 cm in either direction.
WithinRadius(lat1, lon1, lat2, lon2, radius) ==
    LET dy == (lat1 - lat2) * 111
        dx == (lon1 - lon2) * 111
    IN  dy * dy + dx * dx <= (radius * 100) * (radius * 100)

(* ------------------------ dicts kept in order -------------------------- *)

Keys(d) == {d[i].k : i \in 1..Len(d)}

Index(d, key) == CHOOSE i \in 1..Len(d) : d[i].k = key

\* d[key]
Lookup(d, key) == d[Index(d, key)].v

\* d[key] = value
Put(d, key, value) ==
    IF key \in Keys(d)
    THEN [d EXCEPT ![Index(d, key)] = [k |-> key, v |-> value]]
    ELSE Append(d, [k |-> key, v |-> value])

(* ------------------------ parser / classifier -------------------------- *)

\* _classify_place_type(address)
_classify_place_type_shop_first(address) ==
    IF "shop" \in DOMAIN address THEN <<"c","o","m","m","e","r","c","i","a","l">>
    ELSE IF "amenity" \in DOMAIN address THEN address["amenity"]
    ELSE IF "building" \in DOMAIN address THEN
        IF address["building"] \in { <<"h","o","u","s","e">>,
                                     <<"r","e","s","i","d","e","n","t","i","a","l">>,
                                     <<"a","p","a","r","t","m","e","n","t","s">> }
        THEN <<"r","e","s","i","d","e","n","c","e">>
        ELSE <<"b","u","i","l","d","i","n","g">>
    ELSE IF "highway" \in DOMAIN address THEN <<"r","o","a","d">>
    ELSE <<"u","n","k","n","o","w","n">>

_classify_place_type(address) ==
    IF "amenity" \in DOMAIN address THEN address["amenity"]
    ELSE IF "shop" \in DOMAIN address THEN <<"c","o","m","m","e","r","c","i","a","l">>
    ELSE IF "building" \in DOMAIN address THEN
        IF address["building"] \in { <<"h","o","u","s","e">>,
                                     <<"r","e","s","i","d","e","n","t","i","a","l">>,
                                     <<"a","p","a","r","t","m","e","n","t","s">> }
        THEN <<"r","e","s","i","d","e","n","c","e">>
        ELSE <<"b","u","i","l","d","i","n","g">>
    ELSE IF "highway" \in DOMAIN address THEN <<"r","o","a","d">>
    ELSE <<"u","n","k","n","o","w","n">>

\* the place name chosen by enrich_place from location.raw
PlaceName_keeps_digits(raw, address) ==
    LET place_name == Get(raw, "name", <<>>)
    IN  IF ~Truthy(place_name)
        THEN Or(Get(address, "amenity", None),
             Or(Get(address, "shop", None),
             Or(Get(address, "building", None),
             Or(Get(address, "tourism", None),
                SplitFirst(Get(raw, "display_name", <<>>))))))
        ELSE place_name

PlaceName(raw, address) ==
    LET place_name == Get(raw, "name", <<>>)
    IN  IF ~Truthy(place_name) \/ isdigit(place_name)
        THEN Or(Get(address, "amenity", None),
             Or(Get(address, "shop", None),
             Or(Get(address, "building", None),
             Or(Get(address, "tourism", None),
                SplitFirst(Get(raw, "display_name", <<>>))))))
        ELSE place_name

\* the PlaceEnrichment built by enrich_place from a geocoder Location;
\* location.address is the provider's display_name
ParseLocation(raw) ==
    LET address == Get(raw, "address", <<>>)
    IN  [name        |-> PlaceName(raw, address),
         address     |-> Get(raw, "display_name", None),
         city        |-> Or(Get(address, "city", None),
                         Or(Get(address, "town", None),
                            Get(address, "village", None))),
         state       |-> Get(address, "state", None),
         country     |-> Get(address, "country", None),
         postal_code |-> Get(address, "postcode", None),
         place_type  |-> _classify_place_type(address),
         raw_data    |-> <<raw>>]

(* --------------------------- cache file -------------------------------- *)

\* fields of the PlaceEnrichment dataclass
PlaceEnrichmentFields ==
    {"name", "address", "city", "state", "country", "postal_code",
     "place_type", "raw_data"}

\* the dict save_cache writes for one PlaceEnrichment
ToDict_noraw(value) ==
    [name        |-> value.name,
     address     |-> value.address,
     city        |-> value.city,
     state       |-> value.state,
     country     |-> value.country,
     postal_code |-> value.postal_code,
     place_type  |-> value.place_type]

ToDict(value) ==
    [name        |-> value.name,
     address     |-> value.address,
     city        |-> value.city,
     state       |-> value.state,
     country     |-> value.country,
     postal_code |-> value.postal_code,
     place_type  |-> value.place_type,
     raw_data    |-> value.raw_data]

\* PlaceEnrichment(**value): every field defaults to None
PlaceEnrichment(value) ==
    [name        |-> Get(value, "name", None),
     address     |-> Get(value, "address", None),
     city        |-> Get(value, "city", None),
     state       |-> Get(value, "state", None),
     country     |-> Get(value, "country", None),
     postal_code |-> Get(value, "postal_code", None),
     place_type  |-> Get(value, "place_type", None),
     raw_data    |-> Get(value, "raw_data", <<>>)]

\* the cache file does not exist
AbsentFile == [kind |-> "absent", data |-> <<>>]

\* the cache file holds a JSON document cut short, or other invalid JSON
BrokenFile == [kind |-> "broken", data |-> <<>>]

\* the cache file holds the JSON object with the items data
JsonFile(data) == [kind |-> "json", data |-> data]

\* the cache file holds valid JSON that is no object (an array, a number):
\* data.items() raises
ArrayFile == [kind |-> "array", data |-> <<>>]

\* load_cache(): the cache read from the file f
load_cache_lenient(f) ==
    IF f.kind /= "json" THEN <<>>
    ELSE LET good(e) == DOMAIN e.v \subseteq PlaceEnrichmentFields
             kept == SelectSeq(f.data, good)
         IN  [i \in 1..Len(kept) |-> [k |-> kept[i].k, v |-> PlaceEnrichment(kept[i].v)]]

load_cache(f) ==
    IF f.kind = "absent" THEN <<>>
    ELSE IF f.kind = "json"
              /\ \A i \in 1..Len(f.data) : DOMAIN f.data[i].v \subseteq PlaceEnrichmentFields
         THEN [i \in 1..Len(f.data) |-> [k |-> f.data[i].k, v |-> PlaceEnrichment(f.data[i].v)]]
         ELSE <<>>

\* how a save_cache() call can go: everything works; mkdir or open raises
\* and the file is not touched; open(..., 'w') has truncated the file and
\* json.dump raises before the document is complete
SaveOutcomes == {"ok", "not_opened", "write_failed"}

\* save_cache(): the file after saving the cache c over the file f
save_cache_skipped(c, f, wr) == f

save_cache(c, f, wr) ==
    LET data == [i \in 1..Len(c) |-> [k |-> c[i].k, v |-> ToDict(c[i].v)]]
    IN  IF wr = "ok" THEN JsonFile(data)
        ELSE IF wr = "not_opened" THEN f
        ELSE BrokenFile

(* ------------------------- proximity matcher --------------------------- *)

\* the iteration i of the loop of _find_cached_nearby returns
NearbyAt(c, latitude, longitude, i) ==
    /\ Decodes(c[i].k)
    /\ WithinRadius(latitude, longitude, Float(c[i].k[1]), Float(c[i].k[2]), cache_radius)

\* _find_cached_nearby(latitude, longitude) over the cache c
_find_cached_nearby_nearest(c, latitude, longitude) ==
    LET hits == {i \in 1..Len(c) : NearbyAt(c, latitude, longitude, i)}
        d(i) == Abs(latitude - Float(c[i].k[1])) + Abs(longitude - Float(c[i].k[2]))
    IN  IF hits = {} THEN <<>>
        ELSE <<c[CHOOSE i \in hits : \A j \in hits : d(i) < d(j) \/ (d(i) = d(j) /\ i <= j)].v>>

_find_cached_nearby_aborts(c, latitude, longitude) ==
    LET bad  == {i \in 1..Len(c) : ~Decodes(c[i].k)}
        hits == {i \in 1..Len(c) : /\ NearbyAt(c, latitude, longitude, i)
                                    /\ \A b \in bad : i < b}
    IN  IF hits = {} THEN <<>>
        ELSE <<c[CHOOSE i \in hits : \A j \in hits : i <= j].v>>

_find_cached_nearby(c, latitude, longitude) ==
    LET hits == {i \in 1..Len(c) : NearbyAt(c, latitude, longitude, i)}
    IN  IF hits = {} THEN <<>>
        ELSE <<c[CHOOSE i \in hits : \A j \in hits : i <= j].v>>

(* ------------------------------ inputs --------------------------------- *)

\* Query coordinates <<latitude, longitude>> in 1e-5 degrees:
\*   <<0, 0>> and <<3, 0>> share the key "0.0000,0.0000";
\*   <<30, 0>> has the key "0.0003,0.0000", 33 m from <<0, 0>>;
\*   <<-3, 0>> has the key "-0.0000,0.0000", 3 m from <<0, 0>>;
\*   <<180, 0>> has the key "0.0018,0.0000", 200 m from <<0, 0>>.
Coords == {<<0, 0>>, <<3, 0>>, <<30, 0>>, <<-3, 0>>, <<180, 0>>}

\* location.raw of the provider's answers
RawDiner ==
    [name         |-> <<"J","o","e">>,
     display_name |-> <<"J","o","e",",","E","l","m">>,
     address      |-> [amenity |-> <<"c","a","f","e">>, city |-> <<"A">>]]

RawHouse ==
    [name         |-> <<"1","2">>,
     display_name |-> <<"1","2",",","O","a","k">>,
     address      |-> [building |-> <<"h","o","u","s","e">>, town |-> <<"B">>]]

RawResponses == {RawDiner, RawHouse}

\* what geocoder.reverse() does: returns a Location, returns None, raises
Outcomes ==
    {[kind |-> "ok", raw |-> <<r>>] : r \in RawResponses}
        \cup {[kind |-> "none", raw |-> <<>>], [kind |-> "error", raw |-> <<>>]}

\* the cache file found by the first PlaceEnricher
InitFiles ==
    { AbsentFile,
      BrokenFile,
      JsonFile(<< [k |-> _get_cache_key(0, 0), v |-> ToDict(ParseLocation(RawHouse))] >>) }

(* --------------------------- the enricher ------------------------------ *)

\* What the caller of the last operation observed and what the geocoder and
\* the file system saw of it: the query key, the branch of enrich_place that
\* returned, the value returned, the number of geocoder.reverse() calls, the
\* time the call was issued, the geocoder's answer and how the save went.
Ret(op, lat, lon, key, force, path, result, calls, issue, outcome, wr) ==
    [op |-> op, lat |-> lat, lon |-> lon, key |-> key, force |-> force,
     path |-> path, result |-> result,
     calls |-> calls, issue |-> issue, outcome |-> outcome, wr |-> wr]

NoOutcome == [kind |-> "nocall", raw |-> <<>>]

Constructed == Ret("init", 0, 0, <<>>, FALSE, "none", <<>>, 0, -1, NoOutcome, "none")

\* the threads that may call enrich_place of one PlaceEnricher at a time
Callers == {1, 2}

\* a caller that is not inside enrich_place
IdleThread ==
    [pc |-> "idle", lat |-> 0, lon |-> 0, force |-> FALSE, wake |-> 0,
     issue |-> -1, outcome |-> NoOutcome, data |-> <<>>, wr |-> "none",
     raced |-> FALSE, saved |-> "none"]

NoThreads == [t \in Callers |-> IdleThread]

\* no enrichment script is running
NoRun ==
    [pc |-> "none", found |-> 0, places |-> <<>>, max_calls |-> 0, force |-> FALSE,
     i |-> 1,
     enriched_count |-> 0, cached_count |-> 0, failed_count |-> 0,
     enrich_calls |-> 0, reverse_calls |-> 0, reverse_ok |-> 0, served |-> 0]

\* no migration is running
NoMigration == [pc |-> "none"]

\* PlaceEnricher(cache_file) in the first process; time.time() is far more
\* than min_request_interval past the initial last_request_time of 0
Init ==
    /\ file \in InitFiles
    /\ cache = load_cache(file)
    /\ last_request_time = 0
    /\ now = min_request_interval
    /\ last_issue = -1
    /\ densified = {}
    /\ step = 0
    /\ ret = Constructed
    /\ threads = NoThreads
    /\ run = NoRun
    /\ mig = NoMigration

\* time passes between two calls
Tick ==
    /\ now < MaxTime
    /\ now' = now + 1
    /\ UNCHANGED <<cache, file, last_request_time, last_issue, densified, step, ret, threads, run, mig>>

\* the process ends and a new PlaceEnricher is constructed on the same file
Restart ==
    /\ step < MaxSteps
    /\ step' = step + 1
    /\ cache' = load_cache(file)
    /\ last_request_time' = 0
    /\ last_issue' = -1
    /\ densified' = {}
    /\ ret' = Constructed
    /\ UNCHANGED <<file, now, threads, run, mig>>

\* "if not force: if cache_key in self.cache"
ExactHit_never(c, cache_key, force) == FALSE

ExactHit_forced(c, cache_key, force) == cache_key \in Keys(c)

ExactHit(c, cache_key, force) == ~force /\ cache_key \in Keys(c)

\* "if not force: nearby = ...; if nearby"
NearbyHit(nearby, force) == ~force /\ nearby /= <<>>

\* the cache after the proximity hit nearby for cache_key
CacheAfterNearby_unchanged(c, cache_key, nearby) == c

CacheAfterNearby(c, cache_key, nearby) == Put(c, cache_key, nearby)

\* the time at which enrich_place leaves the rate limiting block entered at t
RateLimit_none(t, last) == t

RateLimit(t, last) ==
    LET time_since_last == t - last
    IN  IF time_since_last < min_request_interval
        THEN t + (min_request_interval - time_since_last)
        ELSE t

\* the number of geocoder.reverse() calls of one pass through the try block
ReverseCalls_retry(outcome) == IF outcome.kind = "error" THEN 2 ELSE 1

ReverseCalls(outcome) == 1

\* last_request_time after a geocoder.reverse() that ended at time done:
\* the assignment follows the call inside the try block
StampAfterCall(outcome, done, last) ==
    IF outcome.kind = "error" THEN last ELSE done

\* the value enrich_place returns from the API block
ResultOfCall(outcome) ==
    IF outcome.kind = "ok" THEN <<ParseLocation(outcome.raw[1])>> ELSE <<>>

\* the value enrich_place returns after save_cache() went wr: save_cache
\* catches and logs its own exceptions, so the return at the end of the try
\* block is reached whatever wr is
ReturnAfterSave_propagates(result, wr) == IF wr = "ok" THEN result ELSE <<>>

ReturnAfterSave(result, wr) == result

\* the cache after the API block
CacheAfterCall_negative(c, cache_key, outcome) ==
    IF outcome.kind = "ok"
    THEN Put(c, cache_key, ParseLocation(outcome.raw[1]))
    ELSE Put(c, cache_key, PlaceEnrichment(<<>>))

CacheAfterCall_evicts(c, cache_key, outcome) ==
    IF outcome.kind = "ok"
    THEN Put(c, cache_key, ParseLocation(outcome.raw[1]))
    ELSE SelectSeq(c, LAMBDA e : e.k /= cache_key)

CacheAfterCall_partial(c, cache_key, outcome) ==
    IF outcome.kind = "ok"
    THEN IF cache_key \in Keys(c)
         THEN Put(c, cache_key, [Lookup(c, cache_key) EXCEPT
                                    !.name = ParseLocation(outcome.raw[1]).name])
         ELSE Put(c, cache_key, ParseLocation(outcome.raw[1]))
    ELSE c

CacheAfterCall(c, cache_key, outcome) ==
    IF outcome.kind = "ok"
    THEN Put(c, cache_key, ParseLocation(outcome.raw[1]))
    ELSE c

\* enrich_place(latitude, longitude, force); on the API path the geocoder
\* answers outcome after dur ticks and save_cache() goes wr
enrich_place(latitude, longitude, force) ==
    LET cache_key == _get_cache_key(latitude, longitude)
        nearby    == _find_cached_nearby(cache, latitude, longitude)
        issue     == RateLimit(now, last_request_time)
    IN
    /\ step < MaxSteps
    /\ step' = step + 1
    /\ IF ExactHit(cache, cache_key, force) THEN
          /\ ret' = Ret("enrich", latitude, longitude, cache_key, force, "exact",
                        <<Lookup(cache, cache_key)>>, 0, -1, NoOutcome, "none")
          /\ UNCHANGED <<cache, file, last_request_time, now, last_issue, densified>>
       ELSE IF NearbyHit(nearby, force) THEN
          /\ cache' = CacheAfterNearby(cache, cache_key, nearby[1])
          /\ densified' = densified \cup {[k |-> cache_key, v |-> nearby[1]]}
          /\ ret' = Ret("enrich", latitude, longitude, cache_key, force, "nearby", nearby, 0, -1,
                        NoOutcome, "none")
          /\ UNCHANGED <<file, last_request_time, now, last_issue>>
       ELSE
          \E outcome \in Outcomes, dur \in 0..MaxCallDur :
            LET done == issue + dur IN
            /\ done <= MaxTime
            /\ now' = done
            /\ last_issue' = issue
            /\ last_request_time' = StampAfterCall(outcome, done, last_request_time)
            /\ cache' = CacheAfterCall(cache, cache_key, outcome)
            /\ densified' = IF outcome.kind = "ok"
                            THEN {e \in densified : e.k /= cache_key}
                            ELSE densified
            /\ IF outcome.kind = "ok" THEN
                  \E wr \in SaveOutcomes :
                    /\ file' = save_cache(cache', file, wr)
                    /\ ret' = Ret("enrich", latitude, longitude, cache_key, force, "api",
                                  ReturnAfterSave(ResultOfCall(outcome), wr),
                                  ReverseCalls(outcome), issue, outcome, wr)
               ELSE
                  /\ file' = file
                  /\ ret' = Ret("enrich", latitude, longitude, cache_key, force, "api",
                                ResultOfCall(outcome), ReverseCalls(outcome),
                                issue, outcome, "none")

Enrich ==
    \E c \in Coords, force \in BOOLEAN :
        enrich_place(c[1], c[2], force) /\ UNCHANGED <<threads, run, mig>>

Next == Enrich \/ Tick \/ Restart

Spec == Init /\ [][Next]_vars

(* ------------------------------ claims --------------------------------- *)

\* this step is a call of enrich_place
EnrichStep == step' = step + 1 /\ ret'.op = "enrich"

\* some item of the cache c decodes to a point within cache_radius of the point
SomeEntryInRadius(c, lat, lon) ==
    \E i \in 1..Len(c) :
        /\ Decodes(c[i].k)
        /\ WithinRadius(lat, lon, Float(c[i].k[1]), Float(c[i].k[2]), cache_radius)

\* the cache c holds the record value under key
Holds(c, key, value) == \E i \in 1..Len(c) : c[i].k = key /\ c[i].v = value

\* the rate limiting block ran before the geocoder call of this step
RateLimited ==
    /\ ret'.issue >= now
    /\ ret'.issue - last_request_time >= min_request_interval
    /\ last_issue' = ret'.issue

\* C1: a non-forced enrich whose key is in the store returns exactly the
\* stored record, calls the geocoder not at all, neither waits nor touches
\* last_request_time, and leaves the store and the file as they were.
C1_ExactHitShortCircuit ==
    [][ (EnrichStep /\ ~ret'.force /\ ret'.key \in Keys(cache)) =>
          /\ \E i \in 1..Len(cache) :
                cache[i].k = ret'.key /\ ret'.result = <<cache[i].v>>
          /\ ret'.calls = 0
          /\ last_issue' = last_issue
          /\ now' = now
          /\ last_request_time' = last_request_time
          /\ cache' = cache
          /\ file' = file ]_vars

\* an exact hit in a store of two items, on a coordinate that is not the
\* decoded key itself
C1_Witness ==
    /\ ret.op = "enrich" /\ ~ret.force /\ ret.path = "exact"
    /\ ret.lat = 3
    /\ Len(cache) >= 2
    /\ ret.result = <<Lookup(cache, ret.key)>>

\* C2: two consecutive geocoder calls of one enricher are issued at least
\* min_request_interval apart, whatever the outcome of the first.
C2_MinIntervalBetweenCalls ==
    [][ (EnrichStep /\ ret'.calls >= 1 /\ last_issue >= 0) =>
          ret'.issue - last_issue >= min_request_interval ]_vars

\* C3: an enrich that returns None leaves the store and the file exactly as
\* they were, both for an empty answer and for a raising geocoder, also under
\* force with an entry present; the next enrich of the same key that the
\* geocoder answers stores the record parsed from that answer.
C3_FailureNotCached ==
    [][ /\ (EnrichStep /\ ret'.result = <<>>) =>
              /\ ret'.outcome.kind \in {"none", "error"}
              /\ cache' = cache
              /\ file' = file
        /\ (EnrichStep /\ ret'.outcome.kind \in {"none", "error"}) =>
              ret'.result = <<>>
        /\ (EnrichStep /\ ret.op = "enrich" /\ ret.result = <<>>
                /\ ret'.key = ret.key /\ ret'.outcome.kind = "ok") =>
              /\ Holds(cache', ret'.key, ParseLocation(ret'.outcome.raw[1]))
              /\ ret'.result = <<ParseLocation(ret'.outcome.raw[1])>> ]_vars

\* a forced enrich failed on a raising geocoder while its key was stored
C3_Witness ==
    /\ ret.op = "enrich" /\ ret.result = <<>> /\ ret.outcome.kind = "error"
    /\ ret.force
    /\ ret.key \in Keys(cache)

\* C4: a non-forced enrich with no item at its key and some item within the
\* radius returns a stored record without a geocoder call; from then on
\* every non-forced enrich of that key is an exact hit returning that record
\* (the record under the key, which only a refresh of the key replaces).
C4_ProximityReuse ==
    [][ /\ (EnrichStep /\ ~ret'.force /\ ret'.key \notin Keys(cache)
                /\ SomeEntryInRadius(cache, ret'.lat, ret'.lon)) =>
              /\ ret'.path = "nearby"
              /\ ret'.calls = 0
              /\ last_issue' = last_issue
              /\ \E i \in 1..Len(cache) : ret'.result = <<cache[i].v>>
              /\ Holds(cache', ret'.key, ret'.result[1])
              /\ [k |-> ret'.key, v |-> ret'.result[1]] \in densified'
        /\ \A e \in densified :
              (EnrichStep /\ ~ret'.force /\ ret'.key = e.k) =>
                  /\ ret'.path = "exact"
                  /\ ret'.result = <<e.v>>
                  /\ ret'.calls = 0 ]_vars

\* an exact hit on a key that a proximity hit filled earlier
C4_Witness ==
    /\ ret.op = "enrich" /\ ret.path = "exact" /\ ~ret.force
    /\ [k |-> ret.key, v |-> ret.result[1]] \in densified

\* C5: when a proximity hit returns, the file holds the query key's entry.
C5_DensificationPersisted ==
    [][ (EnrichStep /\ ret'.path = "nearby") =>
          /\ file'.kind = "json"
          /\ \E i \in 1..Len(file'.data) :
                /\ file'.data[i].k = ret'.key
                /\ file'.data[i].v = ToDict(ret'.result[1]) ]_vars

\* the file f holds exactly the items of the cache c, field by field
FileHoldsCache(f, c) ==
    /\ f.kind = "json"
    /\ Len(f.data) = Len(c)
    /\ \A i \in 1..Len(c) :
          /\ f.data[i].k = c[i].k
          /\ DOMAIN f.data[i].v = PlaceEnrichmentFields
          /\ \A fld \in PlaceEnrichmentFields : f.data[i].v[fld] = c[i].v[fld]

\* C6: when the geocoder answers, enrich stores the record parsed from the
\* answer under the query key and returns that record; if the write goes
\* through, the file then holds exactly the whole in-memory store.
C6_SuccessStoredAndPersisted ==
    [][ (EnrichStep /\ ret'.outcome.kind = "ok") =>
          /\ ret'.result = <<ParseLocation(ret'.outcome.raw[1])>>
          /\ Holds(cache', ret'.key, ret'.result[1])
          /\ \A i \in 1..Len(cache') :
                cache'[i].k /= ret'.key => cache'[i] \in {cache[j] : j \in 1..Len(cache)}
          /\ (ret'.wr = "ok" => FileHoldsCache(file', cache')) ]_vars

\* a successful enrichment was saved while the store also held an item that
\* a proximity hit had added without saving
C6_Witness ==
    /\ ret.op = "enrich" /\ ret.outcome.kind = "ok" /\ ret.wr = "ok"
    /\ densified /= {}
    /\ Len(cache) >= 3
    /\ FileHoldsCache(file, cache)

\* C7: a non-forced enrich with no item at its key and none within the
\* radius makes exactly one geocoder call, after the rate limiting block;
\* no enrich makes more than one geocoder call, whatever the answer.
C7_FullMissOneCall ==
    [][ EnrichStep =>
          /\ ret'.calls <= 1
          /\ (~ret'.force /\ ret'.key \notin Keys(cache)
                /\ ~SomeEntryInRadius(cache, ret'.lat, ret'.lon)) =>
                  /\ ret'.path = "api"
                  /\ ret'.calls = 1
                  /\ RateLimited ]_vars

\* a full miss, 200 m from the only stored item, on a raising geocoder
C7_Witness ==
    /\ ret.op = "enrich" /\ ~ret.force /\ ret.path = "api" /\ ret.calls = 1
    /\ ret.outcome.kind = "error"
    /\ ret.lat = 180
    /\ Keys(cache) = {_get_cache_key(0, 0)}

\* C8: a forced enrich never returns from the cache: it runs the rate
\* limiting block and calls the geocoder once, also when an item exists at
\* its key or within the radius, and on an answer the item at its key is the
\* fresh record.
C8_ForceBypassesCache ==
    [][ (EnrichStep /\ ret'.force) =>
          /\ ret'.path = "api"
          /\ ret'.calls = 1
          /\ RateLimited
          /\ ret'.outcome.kind = "ok" =>
                /\ Holds(cache', ret'.key, ParseLocation(ret'.outcome.raw[1]))
                /\ Len(cache') = Len(cache) + (IF ret'.key \in Keys(cache) THEN 0 ELSE 1) ]_vars

\* the first call, forced, replaced the record loaded from the file at the
\* key "0.0000,0.0000" by a different fresh one (the save did not open the
\* file, which still shows the record loaded)
C8_Witness ==
    /\ step = 1 /\ ret.op = "enrich" /\ ret.force /\ ret.outcome.kind = "ok"
    /\ ret.wr = "not_opened"
    /\ ret.key = _get_cache_key(0, 0)
    /\ file = JsonFile(<< [k |-> ret.key, v |-> ToDict(ParseLocation(RawHouse))] >>)
    /\ cache = << [k |-> ret.key, v |-> ParseLocation(RawDiner)] >>

\* C9: last_request_time is set to the time every geocoder call attempt
\* ends, whether it answered, answered nothing or raised.
C9_StampAfterEveryAttempt ==
    [][ (EnrichStep /\ ret'.calls >= 1) => last_request_time' = now' ]_vars

\* C10: a save leaves in the file either what it held before or the complete
\* new store, also when the save fails part-way.
C10_SaveAtomic ==
    [][ EnrichStep => (file' = file \/ FileHoldsCache(file', cache')) ]_vars

\* C11: when save_cache fails during an answered enrichment, enrich still
\* returns the freshly parsed record and the in-memory store holds it under
\* the query key; the next non-forced enrich of that key is an exact hit
\* returning it.
C11_SaveFailureNotFatal ==
    [][ /\ (EnrichStep /\ ret'.outcome.kind = "ok" /\ ret'.wr /= "ok") =>
              /\ ret'.result = <<ParseLocation(ret'.outcome.raw[1])>>
              /\ Holds(cache', ret'.key, ParseLocation(ret'.outcome.raw[1]))
        /\ (EnrichStep /\ ret.op = "enrich" /\ ret.outcome.kind = "ok"
                /\ ret.wr /= "ok" /\ ~ret'.force /\ ret'.key = ret.key) =>
              /\ ret'.path = "exact"
              /\ ret'.result = <<ParseLocation(ret.outcome.raw[1])>>
              /\ ret'.calls = 0 ]_vars

\* an answered enrichment whose save failed part-way: the record is returned
\* and in the store, and the file is cut short
C11_Witness ==
    /\ ret.op = "enrich" /\ ret.outcome.kind = "ok" /\ ret.wr = "write_failed"
    /\ ret.result /= <<>>
    /\ Holds(cache, ret.key, ret.result[1])
    /\ file = BrokenFile

(* ------------------- the store operations on their own ----------------- *)

MaxEntries == 2

\* a cache key that float() rejects
JunkToken == [txt |-> "junk", neg |-> FALSE, mag |-> 0]

\* the keys of the cache files found at start: three written by
\* _get_cache_key, and "home", "0.0000,north" and "0.0000,0.0000,0.0000"
StoreKeys ==
    { _get_cache_key(0, 0), _get_cache_key(30, 0), _get_cache_key(180, 0),
      <<JunkToken>>, <<Format4(0), JunkToken>>, <<Format4(0), Format4(0), Format4(0)>> }

\* an entry as save_cache writes it, with state, country and postcode null
DictDiner ==
    [name        |-> <<"J","o","e">>,
     address     |-> <<"J","o","e",",","E","l","m">>,
     city        |-> <<"A">>,
     state       |-> None,
     country     |-> None,
     postal_code |-> None,
     place_type  |-> <<"c","a","f","e">>,
     raw_data    |-> <<RawDiner>>]

\* an entry with every field and a null raw_data
DictNullRaw ==
    [name        |-> <<"H","Q">>,
     address     |-> None,
     city        |-> <<"B">>,
     state       |-> None,
     country     |-> None,
     postal_code |-> None,
     place_type  |-> <<"r","o","a","d">>,
     raw_data    |-> <<>>]

\* an entry written by hand with the name only
DictSparse == [name |-> <<"X">>]

\* an entry with a field PlaceEnrichment does not have
DictExtra == [name |-> <<"Y">>, place_type |-> <<"r","o","a","d">>, visits |-> <<"7">>]

StoreDicts == {DictDiner, DictNullRaw, DictSparse, DictExtra}

\* the JSON objects of at most MaxEntries items with different keys
StoreData ==
    UNION { { d \in [1..n -> [k : StoreKeys, v : StoreDicts]] :
                \A i, j \in 1..n : i /= j => d[i].k /= d[j].k } : n \in 0..MaxEntries }

\* the cache file found by PlaceEnricher(cache_file)
StoreFiles == {AbsentFile, BrokenFile, ArrayFile} \cup {JsonFile(d) : d \in StoreData}

InitStore ==
    /\ file \in StoreFiles
    /\ cache = load_cache(file)
    /\ last_request_time = 0
    /\ now = min_request_interval
    /\ last_issue = -1
    /\ densified = {}
    /\ step = 0
    /\ ret = Constructed
    /\ threads = NoThreads
    /\ run = NoRun
    /\ mig = NoMigration

\* load_cache()
LoadCache ==
    /\ cache' = load_cache(file)
    /\ ret' = Ret("load", 0, 0, <<>>, FALSE, "none", <<>>, 0, -1, NoOutcome, "none")
    /\ UNCHANGED <<file, last_request_time, now, last_issue, densified, step, threads, run, mig>>

\* save_cache()
SaveCache ==
    \E wr \in SaveOutcomes :
        /\ file' = save_cache(cache, file, wr)
        /\ ret' = Ret("save", 0, 0, <<>>, FALSE, "none", <<>>, 0, -1, NoOutcome, wr)
        /\ UNCHANGED <<cache, last_request_time, now, last_issue, densified, step, threads, run, mig>>

\* _find_cached_nearby(latitude, longitude)
FindNearby ==
    \E c \in Coords :
        /\ ret' = Ret("find", c[1], c[2], <<>>, FALSE, "none",
                      _find_cached_nearby(cache, c[1], c[2]), 0, -1, NoOutcome, "none")
        /\ UNCHANGED <<cache, file, last_request_time, now, last_issue, densified, step, threads, run, mig>>

NextStore == LoadCache \/ SaveCache \/ FindNearby

SpecStore == InitStore /\ [][NextStore]_vars

\* the file f exists and is not a JSON object of PlaceEnrichment fields
Malformed(f) ==
    \/ f.kind \in {"broken", "array"}
    \/ /\ f.kind = "json"
       /\ \E i \in 1..Len(f.data) : ~(DOMAIN f.data[i].v \subseteq PlaceEnrichmentFields)

\* C12: constructing the enricher, or loading again, yields an empty store
\* when the file is absent and when it is malformed (cut short, not an
\* object, an entry with an unexpected field), keeping none of its entries;
\* a well-formed file yields one record per entry.
C12_LoadNeverFails ==
    ret.op \in {"init", "load"} =>
        /\ (file.kind = "absent" \/ Malformed(file)) => cache = <<>>
        /\ (file.kind = "json" /\ ~Malformed(file)) =>
              /\ Len(cache) = Len(file.data)
              /\ \A i \in 1..Len(cache) : cache[i].k = file.data[i].k

\* a file whose first entry is well-formed and whose second has an
\* unexpected field was loaded: nothing is kept
C12_Witness ==
    /\ ret.op = "load"
    /\ file.kind = "json" /\ Len(file.data) = 2
    /\ file.data[1].v = DictDiner
    /\ file.data[2].v = DictExtra
    /\ cache = <<>>

\* the stores c and d have the same keys and, under each key, records equal
\* field by field
SameStore(c, d) ==
    /\ Keys(c) = Keys(d)
    /\ \A i \in 1..Len(c) : \A j \in 1..Len(d) :
          c[i].k = d[j].k =>
              \A fld \in PlaceEnrichmentFields : c[i].v[fld] = d[j].v[fld]

\* C13: loading the file right after a successful save of the store yields
\* the same keys and, for every key, a record equal field by field.
C13_CacheRoundTrip ==
    [][ (ret.op = "save" /\ ret.wr = "ok" /\ ret'.op = "load") =>
            SameStore(cache', cache) ]_vars

\* a store with a hand-written sparse entry (every optional field None, no
\* raw_data) and an entry with raw_data was saved in full and loaded back
C13_Witness ==
    /\ ret.op = "load"
    /\ Len(cache) = 2
    /\ file.kind = "json" /\ Len(file.data) = 2
    /\ \E i, j \in 1..2 :
          /\ cache[i].v = PlaceEnrichment(DictSparse)
          /\ DOMAIN file.data[i].v = PlaceEnrichmentFields
          /\ cache[i].v.raw_data = <<>>
          /\ cache[j].v = ParseLocation(RawDiner)
          /\ cache[j].v.raw_data /= <<>>

\* C17: every record in the store has a place_type that is not None.
C17_PlaceTypeNeverAbsent ==
    \A i \in 1..Len(cache) : cache[i].v.place_type /= None

\* the item i of the cache c decodes to a point within cache_radius
InRadius(c, i, lat, lon) ==
    /\ Decodes(c[i].k)
    /\ WithinRadius(lat, lon, Float(c[i].k[1]), Float(c[i].k[2]), cache_radius)

\* C18: _find_cached_nearby returns a record exactly when some item decodes
\* to a point within the radius, and then the record of the first such item
\* in the order of the store.
C18_FirstWithinRadius ==
    ret.op = "find" =>
        /\ (ret.result /= <<>>) <=>
              (\E i \in 1..Len(cache) : InRadius(cache, i, ret.lat, ret.lon))
        /\ ret.result /= <<>> =>
              \E i \in 1..Len(cache) :
                  /\ InRadius(cache, i, ret.lat, ret.lon)
                  /\ \A j \in 1..(i - 1) : ~InRadius(cache, j, ret.lat, ret.lon)
                  /\ ret.result = <<cache[i].v>>

\* the first item, 36 m from the query, was returned although the second,
\* 3 m from it, holds a different record
C18_Witness ==
    /\ ret.op = "find" /\ ret.lat = -3 /\ ret.lon = 0
    /\ Len(cache) = 2
    /\ cache[1].k = _get_cache_key(30, 0)
    /\ cache[2].k = _get_cache_key(0, 0)
    /\ cache[1].v /= cache[2].v
    /\ ret.result = <<cache[1].v>>

\* C19: a key that does not decode is skipped: it never supplies the record
\* returned, it does not end the scan for the well-formed items after it, and
\* a store of such keys only yields nothing.
C19_MalformedKeysSkipped ==
    ret.op = "find" =>
        /\ \A j \in 1..Len(cache) :
              ( /\ InRadius(cache, j, ret.lat, ret.lon)
                /\ \A i \in 1..(j - 1) : ~Decodes(cache[i].k) ) =>
                    ret.result = <<cache[j].v>>
        /\ (\A i \in 1..Len(cache) : ~Decodes(cache[i].k)) => ret.result = <<>>
        /\ ret.result /= <<>> =>
              \E j \in 1..Len(cache) : Decodes(cache[j].k) /\ ret.result = <<cache[j].v>>

\* the item after a key that does not decode was returned, and the record
\* under that key was not
C19_Witness ==
    /\ ret.op = "find"
    /\ Len(cache) = 2
    /\ ~Decodes(cache[1].k)
    /\ Decodes(cache[2].k)
    /\ cache[1].v /= cache[2].v
    /\ ret.result = <<cache[2].v>>

\* the value of x (1e-5 degrees) rounded to 4 decimals, in 1e-4 degrees
Round4(x) == IF x < 0 THEN -Format4(x).mag ELSE Format4(x).mag

\* C14: a coordinate whose latitude and longitude round to the same values
\* at 4 decimals as those of the query gets the query's key.
C14_QuantizerCollision ==
    ret.op = "enrich" =>
        \A c \in Coords :
            (Round4(c[1]) = Round4(ret.lat) /\ Round4(c[2]) = Round4(ret.lon)) =>
                _get_cache_key(c[1], c[2]) = ret.key

(* ------------------- the parser and classifier on their own ------------ *)

\* the labels of an address that the parser and the classifier read
Labels == {"amenity", "shop", "building", "tourism", "highway"}

BuildingValues ==
    { <<"h","o","u","s","e">>, <<"r","e","s","i","d","e","n","t","i","a","l">>,
      <<"a","p","a","r","t","m","e","n","t","s">>, <<"b","a","r","n">> }

\* the value of a label other than building
LabelValue(l) ==
    IF l = "amenity" THEN <<"c","a","f","e">>
    ELSE IF l = "shop" THEN <<"b","a","k","e","r","y">>
    ELSE IF l = "tourism" THEN <<"z","o","o">>
    ELSE <<"r","e","s","i","d","e","n","t","i","a","l">>

\* the address components of the provider's answers: any set of labels
Addresses ==
    { [l \in S |-> IF l = "building" THEN b ELSE LabelValue(l)] :
        S \in SUBSET Labels, b \in BuildingValues }

\* the name field of the answers: none, empty, a house number, a name
RawNames == { <<>>, <<"1","2">>, <<"J","o","e">> }

\* location.raw of the answers parsed here
ParseInputs ==
    { [display_name |-> <<"O","a","k",",","E","l","m">>, address |-> a] : a \in Addresses }
    \cup { [name |-> n, display_name |-> <<"O","a","k",",","E","l","m">>, address |-> a] :
             n \in RawNames, a \in Addresses }
    \cup { [name |-> n, address |-> a] : n \in RawNames, a \in Addresses }

InitParse ==
    /\ file = AbsentFile
    /\ cache = <<>>
    /\ last_request_time = 0
    /\ now = min_request_interval
    /\ last_issue = -1
    /\ densified = {}
    /\ step = 0
    /\ ret = Constructed
    /\ threads = NoThreads
    /\ run = NoRun
    /\ mig = NoMigration

\* _classify_place_type(address) called on its own
Classify ==
    \E a \in Addresses :
        /\ ret' = Ret("classify", 0, 0, <<>>, FALSE, "none",
                      <<_classify_place_type(a)>>, 0, -1,
                      [kind |-> "ok", raw |-> <<[address |-> a]>>], "none")
        /\ UNCHANGED <<cache, file, last_request_time, now, last_issue, densified, step, threads, run, mig>>

\* the parsing block of enrich_place applied to an answer
ParseAnswer ==
    \E raw \in ParseInputs :
        /\ ret' = Ret("parse", 0, 0, <<>>, FALSE, "none",
                      <<ParseLocation(raw)>>, 0, -1,
                      [kind |-> "ok", raw |-> <<raw>>], "none")
        /\ UNCHANGED <<cache, file, last_request_time, now, last_issue, densified, step, threads, run, mig>>

NextParse == Classify \/ ParseAnswer

SpecParse == InitParse /\ [][NextParse]_vars

\* C15: the place type is the amenity label verbatim if there is one; else
\* "commercial" if there is a shop label; else, if there is a building
\* label, "residence" for house, residential and apartments and "building"
\* for anything else; else "road" if there is a highway label; else
\* "unknown".
C15_ClassifyFirstMatch ==
    ret.op = "classify" =>
        LET a == ret.outcome.raw[1].address
            t == ret.result[1]
            has(l) == l \in DOMAIN a
        IN  /\ has("amenity") => t = a["amenity"]
            /\ (~has("amenity") /\ has("shop")) =>
                  t = <<"c","o","m","m","e","r","c","i","a","l">>
            /\ (~has("amenity") /\ ~has("shop") /\ has("building")) =>
                  /\ a["building"] \in { <<"h","o","u","s","e">>,
                                         <<"r","e","s","i","d","e","n","t","i","a","l">>,
                                         <<"a","p","a","r","t","m","e","n","t","s">> }
                        => t = <<"r","e","s","i","d","e","n","c","e">>
                  /\ a["building"] = <<"b","a","r","n">>
                        => t = <<"b","u","i","l","d","i","n","g">>
            /\ (~has("amenity") /\ ~has("shop") /\ ~has("building") /\ has("highway")) =>
                  t = <<"r","o","a","d">>
            /\ (~has("amenity") /\ ~has("shop") /\ ~has("building") /\ ~has("highway")) =>
                  t = <<"u","n","k","n","o","w","n">>

\* an address with amenity, shop, building and highway labels was
\* classified by its amenity
C15_Witness ==
    /\ ret.op = "classify"
    /\ {"amenity", "shop", "building", "highway"} \subseteq DOMAIN ret.outcome.raw[1].address
    /\ ret.result = << <<"c","a","f","e">> >>

\* s is the text of d before its first comma, d itself if it has none
FirstSegment(s, d) ==
    /\ Len(s) <= Len(d)
    /\ \A i \in 1..Len(s) : s[i] = d[i] /\ s[i] /= ","
    /\ Len(s) < Len(d) => d[Len(s) + 1] = ","

\* C16: the name is the provider's name unless that is missing, empty or
\* all digits; otherwise the first label there is of amenity, shop,
\* building, tourism; otherwise the first comma-delimited segment of the
\* formatted address.
C16_NamePriority ==
    ret.op = "parse" =>
        LET raw == ret.outcome.raw[1]
            a == raw.address
            n == ret.result[1].name
            has(l) == l \in DOMAIN a
            usable == /\ "name" \in DOMAIN raw
                      /\ raw.name /= <<>>
                      /\ \E i \in 1..Len(raw.name) : raw.name[i] \notin Digits
            full == IF "display_name" \in DOMAIN raw THEN raw.display_name ELSE <<>>
        IN  /\ usable => n = raw.name
            /\ (~usable /\ has("amenity")) => n = a["amenity"]
            /\ (~usable /\ ~has("amenity") /\ has("shop")) => n = a["shop"]
            /\ (~usable /\ ~has("amenity") /\ ~has("shop") /\ has("building")) =>
                  n = a["building"]
            /\ (~usable /\ ~has("amenity") /\ ~has("shop") /\ ~has("building")
                  /\ has("tourism")) => n = a["tourism"]
            /\ (~usable /\ ~has("amenity") /\ ~has("shop") /\ ~has("building")
                  /\ ~has("tourism")) => FirstSegment(n, full)

\* a house number as the name and an amenity label: the amenity is the name
C16_Witness ==
    /\ ret.op = "parse"
    /\ "name" \in DOMAIN ret.outcome.raw[1]
    /\ ret.outcome.raw[1].name = <<"1","2">>
    /\ "amenity" \in DOMAIN ret.outcome.raw[1].address
    /\ ret.result[1].name = <<"c","a","f","e">>

(* --------------------- two callers of one enricher --------------------- *)

\* The steps of enrich_place as threads interleave them: the cache checks,
\* the read of the clock and of last_request_time, the end of the sleep and
\* the start of geocoder.reverse(), its return with the assignment of
\* last_request_time, the put, and the steps of save_cache: data built from
\* the cache, the file opened, the text written and the return.  The code
\* takes no lock anywhere.

\* the coordinates the concurrent callers ask for: two different keys
ConcCoords == {<<0, 0>>, <<180, 0>>}

\* what geocoder.reverse() does for the concurrent callers
ConcOutcomes == {o \in Outcomes : o.kind = "ok" => o.raw = <<RawDiner>>}

\* how many calls of enrich_place the callers make between them
MaxConcCalls == 2

\* the last tick of the clock while the callers run
MaxConcTime == 3

\* time passes while the callers run
ConcTick ==
    /\ now < MaxConcTime
    /\ now' = now + 1
    /\ UNCHANGED <<cache, file, last_request_time, last_issue, densified, step, ret, threads, run, mig>>

\* a caller back from enrich_place, with what became of the last save_cache
\* it ran
Returned(saved) == [IdleThread EXCEPT !.saved = saved]

\* self.cache.items() of save_cache (lines 91-103) is iterated while other
\* threads assign into self.cache: an assignment that adds a key while the
\* comprehension of thread u runs makes it raise "dictionary changed size
\* during iteration", which save_cache catches and logs (lines 108-109).
\* The threads after thread t changed the cache from c to c2, with t itself
\* as in ths: every other thread inside lines 86-103 either had not started
\* or had finished iterating, or has its save_cache fail.
AfterMutation(t, ths, c, c2) ==
    LET exposed == {u \in Callers \ {t} : ths[u].pc = "iter" /\ Len(c2) /= Len(c)}
    IN  { [u \in Callers |-> IF u \in failed THEN [ths[u] EXCEPT !.pc = "raised"]
                                              ELSE ths[u]] :
          failed \in SUBSET exposed }

\* lines 152-167: thread t enters enrich_place and checks the cache
BeginCall(t) ==
    \E c \in ConcCoords, force \in BOOLEAN :
        LET cache_key == _get_cache_key(c[1], c[2])
            nearby    == _find_cached_nearby(cache, c[1], c[2])
        IN
        /\ threads[t].pc = "idle"
        /\ step < MaxConcCalls
        /\ step' = step + 1
        /\ UNCHANGED <<file, last_request_time, now, last_issue, run, mig>>
        /\ IF ExactHit(cache, cache_key, force) THEN
              /\ ret' = Ret("enrich", c[1], c[2], cache_key, force, "exact",
                            <<Lookup(cache, cache_key)>>, 0, -1, NoOutcome, "none")
              /\ UNCHANGED <<cache, densified, threads, run, mig>>
           ELSE IF NearbyHit(nearby, force) THEN
              /\ cache' = CacheAfterNearby(cache, cache_key, nearby[1])
              /\ densified' = densified \cup {[k |-> cache_key, v |-> nearby[1]]}
              /\ ret' = Ret("enrich", c[1], c[2], cache_key, force, "nearby", nearby,
                            0, -1, NoOutcome, "none")
              /\ threads' \in AfterMutation(t, threads, cache, cache')
           ELSE
              /\ threads' = [threads EXCEPT ![t] =
                                [threads[t] EXCEPT !.pc = "limit", !.lat = c[1],
                                                   !.lon = c[2], !.force = force]]
              /\ UNCHANGED <<cache, densified, ret>>

\* lines 170-173: thread t reads the clock and last_request_time and
\* computes how long to sleep
LimitStep(t) ==
    /\ threads[t].pc = "limit"
    /\ threads' = [threads EXCEPT ![t].pc = "sleep",
                                  ![t].wake = RateLimit(now, last_request_time)]
    /\ UNCHANGED <<cache, file, last_request_time, now, last_issue, densified, step, ret, run, mig>>

\* lines 174-179: the sleep of thread t is over and it calls the geocoder
IssueStep(t) ==
    /\ threads[t].pc = "sleep"
    /\ now >= threads[t].wake
    /\ threads' = [threads EXCEPT ![t].pc = "call", ![t].issue = now]
    /\ last_issue' = now
    /\ UNCHANGED <<cache, file, last_request_time, now, densified, step, ret, run, mig>>

\* lines 179-184 and 219-221: the geocoder answers thread t
ReturnStep(t) ==
    \E outcome \in ConcOutcomes :
        LET th == threads[t] IN
        /\ th.pc = "call"
        /\ last_request_time' = StampAfterCall(outcome, now, last_request_time)
        /\ IF outcome.kind = "ok" THEN
              /\ threads' = [threads EXCEPT ![t].pc = "put", ![t].outcome = outcome]
              /\ UNCHANGED ret
           ELSE
              /\ threads' = [threads EXCEPT ![t] = Returned(th.saved)]
              /\ ret' = Ret("enrich", th.lat, th.lon, _get_cache_key(th.lat, th.lon),
                            th.force, "api", ResultOfCall(outcome),
                            ReverseCalls(outcome), th.issue, outcome, "none")
        /\ UNCHANGED <<cache, file, now, last_issue, densified, step, run, mig>>

\* lines 186-213: thread t parses the answer, puts the record and enters
\* save_cache
PutStep(t) ==
    LET th == threads[t]
        cache_key == _get_cache_key(th.lat, th.lon)
    IN
    /\ th.pc = "put"
    /\ cache' = CacheAfterCall(cache, cache_key, th.outcome)
    /\ densified' = {e \in densified : e.k /= cache_key}
    /\ threads' \in AfterMutation(t, [threads EXCEPT ![t].pc = "iter"], cache, cache')
    /\ UNCHANGED <<file, last_request_time, now, last_issue, step, ret, run, mig>>

\* lines 91-103: thread t has built data from the cache as it is now
SnapStep(t) ==
    /\ threads[t].pc = "iter"
    /\ threads' = [threads EXCEPT ![t].pc = "save", ![t].data = cache]
    /\ UNCHANGED <<cache, file, last_request_time, now, last_issue, densified, step, ret, run, mig>>

\* lines 108-109 and 216-217: the comprehension of thread t raised; nothing
\* is written and enrich_place returns the record
RaisedStep(t) ==
    LET th == threads[t] IN
    /\ th.pc = "raised"
    /\ ret' = Ret("enrich", th.lat, th.lon, _get_cache_key(th.lat, th.lon),
                  th.force, "api", ReturnAfterSave(ResultOfCall(th.outcome), "not_opened"),
                  ReverseCalls(th.outcome), th.issue, th.outcome, "not_opened")
    /\ threads' = [threads EXCEPT ![t] = Returned("not_opened")]
    /\ UNCHANGED <<cache, file, last_request_time, now, last_issue, densified, step, run, mig>>

\* line 105: thread t opens the cache file with 'w', which empties it; a
\* thread that has the file open at that moment, to write another text,
\* writes into a file emptied under it (two threads writing the same text
\* at the same offsets leave that text)
OpenStep(t) ==
    \E wr \in SaveOutcomes :
        LET th == threads[t]
            writers == {u \in Callers \ {t} : /\ threads[u].pc = "write"
                                                /\ threads[u].data /= th.data}
        IN
        /\ th.pc = "save"
        /\ IF wr = "not_opened" THEN
              /\ file' = save_cache(th.data, file, wr)
              /\ ret' = Ret("enrich", th.lat, th.lon, _get_cache_key(th.lat, th.lon),
                            th.force, "api", ReturnAfterSave(ResultOfCall(th.outcome), wr),
                            ReverseCalls(th.outcome), th.issue, th.outcome, wr)
              /\ threads' = [threads EXCEPT ![t] = Returned(wr)]
           ELSE
              /\ file' = BrokenFile
              /\ threads' = [u \in Callers |->
                                IF u = t THEN [th EXCEPT !.pc = "write", !.wr = wr,
                                                         !.raced = (writers /= {})]
                                ELSE IF u \in writers THEN [threads[u] EXCEPT !.raced = TRUE]
                                ELSE threads[u]]
              /\ UNCHANGED ret
        /\ UNCHANGED <<cache, last_request_time, now, last_issue, densified, step, run, mig>>

\* lines 106 and 214-217: json.dump of thread t ends, the file is closed and
\* enrich_place returns.  Two threads that had the file open at the same
\* time each wrote their own text at their own offset: the file holds the
\* text of the one that wrote last if nothing of the other's is left behind
\* it, and text that is no JSON otherwise.
SaveStep(t) ==
    LET th == threads[t] IN
    /\ th.pc = "write"
    /\ IF th.raced /\ th.wr = "ok"
          THEN file' \in {save_cache(th.data, file, th.wr), BrokenFile}
          ELSE file' = save_cache(th.data, file, th.wr)
    /\ ret' = Ret("enrich", th.lat, th.lon, _get_cache_key(th.lat, th.lon),
                  th.force, "api", ReturnAfterSave(ResultOfCall(th.outcome), th.wr),
                  ReverseCalls(th.outcome), th.issue, th.outcome, th.wr)
    /\ threads' = [threads EXCEPT ![t] = Returned(th.wr)]
    /\ UNCHANGED <<cache, last_request_time, now, last_issue, densified, step, run, mig>>

NextConc ==
    \/ \E t \in Callers : BeginCall(t)
    \/ \E t \in Callers : LimitStep(t)
    \/ \E t \in Callers : IssueStep(t)
    \/ \E t \in Callers : ReturnStep(t)
    \/ \E t \in Callers : PutStep(t)
    \/ \E t \in Callers : SnapStep(t)
    \/ \E t \in Callers : RaisedStep(t)
    \/ \E t \in Callers : OpenStep(t)
    \/ \E t \in Callers : SaveStep(t)
    \/ ConcTick

SpecConc == Init /\ [][NextConc]_vars

\* C20: two callers of one enricher never have geocoder calls in flight that
\* were issued less than min_request_interval apart.
C20_ConcurrentRateLimit ==
    \A t, u \in Callers :
        (t /= u /\ threads[t].pc = "call" /\ threads[u].pc = "call") =>
            Abs(threads[t].issue - threads[u].issue) >= min_request_interval

\* C21: when no caller is inside enrich_place and the last save_cache of
\* every caller wrote its file without failure, the file holds every entry
\* of the in-memory store, so the entries of both callers.
C21_ConcurrentStoreIntact ==
    (\A t \in Callers : threads[t].pc = "idle" /\ threads[t].saved = "ok") =>
        FileHoldsCache(file, cache)

\* C23: an enrich keeps every key of the store, and the record under a key
\* stays the very record it was unless the call queried that key, the
\* geocoder answered, and the record is now the complete record parsed from
\* that answer; no call changes the record under a key other than its own.
C23_WholesaleReplacement ==
    [][ EnrichStep =>
          \A i \in 1..Len(cache) :
              LET k == cache[i].k IN
              /\ k \in Keys(cache')
              /\ \/ Lookup(cache', k) = cache[i].v
                 \/ /\ k = ret'.key
                    /\ ret'.calls >= 1
                    /\ ret'.outcome.kind = "ok"
                    /\ Lookup(cache', k) = ParseLocation(ret'.outcome.raw[1]) ]_vars

\* the second call, forced, replaced the record loaded from the file under
\* "0.0000,0.0000" by the one parsed from a different answer, and the record
\* the first call stored under another key is still there
C23_Witness ==
    /\ step = 2 /\ ret.op = "enrich" /\ ret.force /\ ret.outcome.kind = "ok"
    /\ ret.key = _get_cache_key(0, 0)
    /\ Len(cache) = 2
    /\ cache[1] = [k |-> ret.key, v |-> ParseLocation(RawDiner)]
    /\ cache[2].k = _get_cache_key(180, 0)
    /\ cache[2].v = ParseLocation(RawHouse)

\* C24: an enrich, whether a hit, a miss, forced, failing or with a failing
\* save, removes no key from the store and adds at most one, the key of the
\* coordinates it was asked about.
C24_StoreOnlyGrows ==
    [][ EnrichStep =>
          /\ Keys(cache) \subseteq Keys(cache')
          /\ Keys(cache') \ Keys(cache) \subseteq {ret'.key}
          /\ Len(cache') <= Len(cache) + 1 ]_vars

\* the first call added a key and the second, forced on a stored key with
\* the geocoder raising, left both keys in the store
C24_Witness ==
    /\ step = 2 /\ ret.op = "enrich" /\ ret.force /\ ret.outcome.kind = "error"
    /\ ret.key \in Keys(cache)
    /\ Len(cache) = 2
    /\ ret.result = <<>>

(* ------------------- scripts/enrich_places.py main() ------------------- *)

\* the most places the query returns
MaxPlaces == 3

\* the largest --max-calls
MaxBudget == 2

\* where the places of the database are: on a cached key, within the radius
\* of it, far from it
RunCoords == {<<0, 0>>, <<3, 0>>, <<180, 0>>}

\* the rows of the query of lines 71-102: places, each returned once
PlaceLists ==
    UNION { {p \in [1..n -> RunCoords] : \A a, b \in 1..n : a /= b => p[a] /= p[b]} :
            n \in 0..MaxPlaces }

Min(a, b) == IF a <= b THEN a ELSE b

Max(a, b) == IF a >= b THEN a ELSE b

\* s[:n]
SlicePrefix(s, n) ==
    IF n >= 0 THEN SubSeq(s, 1, Min(n, Len(s)))
    ELSE SubSeq(s, 1, Max(Len(s) + n, 0))

\* lines 112-115: the places the loop will see
LimitPlaces_unlimited(places, max_calls) == places

LimitPlaces(places, max_calls) ==
    IF Len(places) > max_calls THEN SlicePrefix(places, max_calls) ELSE places

\* line 152: from_cache, evaluated after enrich_place has returned
from_cache(c, cache_key, force) == cache_key \in Keys(c) /\ ~force

\* main() has parsed its arguments and run its query; the PlaceEnricher of
\* line 118 is built on the cache file
InitRun ==
    /\ file \in InitFiles
    /\ cache = load_cache(file)
    /\ last_request_time = 0
    /\ now = min_request_interval
    /\ last_issue = -1
    /\ densified = {}
    /\ step = 0
    /\ ret = Constructed
    /\ threads = NoThreads
    /\ mig = NoMigration
    /\ \E places \in PlaceLists, max_calls \in 0..MaxBudget, force \in BOOLEAN :
          run = [NoRun EXCEPT !.pc = "start", !.found = Len(places), !.places = places,
                              !.max_calls = max_calls, !.force = force]

\* lines 106-115: nothing to do, or the list is cut to max_calls places
LimitRun ==
    /\ run.pc = "start"
    /\ run' = IF run.places = <<>>
              THEN [run EXCEPT !.pc = "done"]
              ELSE [run EXCEPT !.pc = "loop",
                               !.places = LimitPlaces(run.places, run.max_calls)]
    /\ UNCHANGED <<cache, file, last_request_time, now, last_issue, densified, step,
                   ret, threads, mig>>

\* lines 138-233: one turn of the loop.  The classifier, the semantic
\* enricher and the UPDATE of the places table touch none of the counters.
EnrichNext ==
    LET place == run.places[run.i] IN
    /\ run.pc = "loop"
    /\ run.i <= Len(run.places)
    /\ enrich_place(place[1], place[2], run.force)
    /\ LET enrichment == ret'.result
           cached     == from_cache(cache', _get_cache_key(place[1], place[2]), run.force)
           ok         == enrichment /= <<>>
           called_ok  == ret'.calls >= 1 /\ ret'.outcome.kind = "ok"
       IN  run' = [run EXCEPT
                     !.i = run.i + 1,
                     !.cached_count   = @ + (IF ok /\ cached THEN 1 ELSE 0),
                     !.enriched_count = @ + (IF ok /\ ~cached THEN 1 ELSE 0),
                     !.failed_count   = @ + (IF ok THEN 0 ELSE 1),
                     !.enrich_calls   = @ + 1,
                     !.reverse_calls  = @ + ret'.calls,
                     !.reverse_ok     = @ + (IF called_ok THEN 1 ELSE 0),
                     !.served         = @ + (IF ok /\ ret'.calls = 0 THEN 1 ELSE 0)]
    /\ UNCHANGED <<threads, mig>>

\* lines 235-245: the loop is over and the summary is printed
Summary ==
    /\ run.pc = "loop"
    /\ run.i > Len(run.places)
    /\ run' = [run EXCEPT !.pc = "done"]
    /\ UNCHANGED <<cache, file, last_request_time, now, last_issue, densified, step,
                   ret, threads, mig>>

NextRun == LimitRun \/ EnrichNext \/ Summary

SpecRun == InitRun /\ [][NextRun]_vars

\* C22: in a run of the script with a budget of max_calls >= 0, the calls of
\* enrich_place, and with them the calls of geocoder.reverse(), never
\* exceed max_calls, whatever the number of places and with or without
\* --force.
C22_CallBudget ==
    /\ run.enrich_calls <= run.max_calls
    /\ run.reverse_calls <= run.enrich_calls

\* more places than the budget, and the whole budget spent on geocoder calls
C22_Witness ==
    /\ run.pc = "done"
    /\ run.found > run.max_calls
    /\ run.max_calls = 2
    /\ run.reverse_calls = 2
    /\ run.force

\* C25: at every point of a run, "From cache" counts the places whose enrich
\* was served without a geocoder call, and "New API calls" counts the
\* places whose enrich made a geocoder call that succeeded.
C25_RunAccounting ==
    /\ run.cached_count = run.served
    /\ run.enriched_count = run.reverse_ok

(* ------------- migrate_from_myndy_ai.py migrate_location_data ---------- *)

\* the most rows of location_data in the source
MaxRows == 3

\* the largest batch_size
MaxBatch == 2

\* the ids of the rows
RowIds == 1..MaxRows

\* the result of the SELECT of lines 133-140: rows in timestamp order, the
\* ids (the primary key) all different
SourceTables ==
    UNION { {r \in [1..n -> RowIds] : \A a, b \in 1..n : a /= b => r[a] /= r[b]} :
            n \in 0..MaxRows }

\* a row of the target's location_data: its id and where its values are from
TargetRow(id, origin) == [id |-> id, origin |-> origin]

\* lines 163-173 and 180-190: executemany of INSERT ... ON CONFLICT (id) DO
\* NOTHING over the batch, and the commit
InsertBatch(target, batch) ==
    target \cup {TargetRow(batch[j], "source") :
                    j \in {j \in 1..Len(batch) : \A r \in target : r.id /= batch[j]}}

\* migrate_location_data(batch_size) is entered: migrated = 0, the cursor is
\* before the first row, batch = []
InitMig ==
    /\ file = AbsentFile
    /\ cache = load_cache(file)
    /\ last_request_time = 0
    /\ now = min_request_interval
    /\ last_issue = -1
    /\ densified = {}
    /\ step = 0
    /\ ret = Constructed
    /\ threads = NoThreads
    /\ run = NoRun
    /\ \E source \in SourceTables, present \in SUBSET RowIds, batch_size \in 1..MaxBatch :
          mig = [pc |-> "rows", source |-> source,
                 target |-> {TargetRow(id, "target") : id \in present},
                 batch_size |-> batch_size, pos |-> 1, batch |-> <<>>,
                 migrated |-> 0, submitted |-> <<>>, batches |-> <<>>,
                 before |-> Cardinality(present)]

\* lines 143-176: one turn of the loop over the cursor: the row joins the
\* batch, and a full batch is inserted, committed and counted
FetchRow ==
    LET batch == Append(mig.batch, mig.source[mig.pos]) IN
    /\ mig.pc = "rows"
    /\ mig.pos <= Len(mig.source)
    /\ mig' = IF Len(batch) >= mig.batch_size
              THEN [mig EXCEPT !.pos = @ + 1,
                               !.target = InsertBatch(@, batch),
                               !.migrated = @ + Len(batch),
                               !.submitted = @ \o batch,
                               !.batches = Append(@, Len(batch)),
                               !.batch = <<>>]
              ELSE [mig EXCEPT !.pos = @ + 1, !.batch = batch]
    /\ UNCHANGED <<cache, file, last_request_time, now, last_issue, densified, step,
                   ret, threads, run>>

\* lines 178-195: the cursor is exhausted; what is left in the batch is
\* inserted, committed and counted, and migrated is returned
FinishMigration ==
    /\ mig.pc = "rows"
    /\ mig.pos > Len(mig.source)
    /\ mig' = IF mig.batch /= <<>>
              THEN [mig EXCEPT !.pc = "returned",
                               !.target = InsertBatch(@, mig.batch),
                               !.migrated = @ + Len(mig.batch),
                               !.submitted = @ \o mig.batch,
                               !.batches = Append(@, Len(mig.batch)),
                               !.batch = <<>>]
              ELSE [mig EXCEPT !.pc = "returned"]
    /\ UNCHANGED <<cache, file, last_request_time, now, last_issue, densified, step,
                   ret, threads, run>>

NextMig == FetchRow \/ FinishMigration

SpecMig == InitMig /\ [][NextMig]_vars

\* the rows were submitted once each, in source order, in batches of at
\* most batch_size rows, and the rows the target already had are untouched
MigrationBatching ==
    mig.pc = "returned" =>
        /\ mig.submitted = mig.source
        /\ \A j \in 1..Len(mig.batches) : mig.batches[j] \in 1..mig.batch_size
        /\ \A r \in mig.target : r.origin = "target" \/ r.id \in {mig.source[j] : j \in 1..Len(mig.source)}
        /\ Cardinality({r \in mig.target : r.origin = "target"}) = mig.before
        /\ Cardinality({r.id : r \in mig.target}) = Cardinality(mig.target)

\* C26: when migrate_location_data returns, every source row was submitted
\* once, in source order, in batches of at most batch_size rows, rows whose
\* id the target already had are untouched, and the number returned is the
\* number of rows the migration inserted into the target.
C26_MigrationCount ==
    /\ MigrationBatching
    /\ mig.pc = "returned" =>
          mig.migrated = Cardinality(mig.target) - mig.before

====
